---- MODULE Spec2Model ----
(***************************************************************************)
(* Markdown repair scripts of the Spherical repository:                    *)
(*   fix-markdown-tables.py   (Table Rewriter, Row Normalizer)             *)
(*   fix-4col-tables.py       (width-4 fixer)                              *)
(*   clean-empty-sections.py  (Section Pruner)                             *)
(*   fix-spacing.py           (Spacing Normalizer)                         *)
(* Text is modelled by TLA+ strings; a character is a string of length 1.  *)
(* Every script reads a whole file, applies one pure function and writes   *)
(* the result, so each script is one action.                               *)
(***************************************************************************)
EXTENDS Integers, Sequences, FiniteSets, TLC

VARIABLES
    file,         \* content of the input file (or the single line under test)
    fixed_lines,  \* the list of lines the last run built before joining
    outfile,      \* content written to the output file by the last run
    tool          \* the script (or function) that ran last, "none" at first

vars == <<file, fixed_lines, outfile, tool>>

(***************************************************************************)
(* Python str methods used by the scripts.                                 *)
(***************************************************************************)

\* s[i] (1-based) as a one-character string
Ch(s, i) == SubSeq(s, i, i)

\* the whitespace str.strip() / str.rstrip() remove and \s matches
WS == {" ", "\n", "\t", "\r"}

RECURSIVE LStrip(_)
LStrip(s) == IF Len(s) > 0 /\ Ch(s, 1) \in WS THEN LStrip(SubSeq(s, 2, Len(s))) ELSE s

RECURSIVE RStrip(_)
RStrip(s) == IF Len(s) > 0 /\ Ch(s, Len(s)) \in WS THEN RStrip(SubSeq(s, 1, Len(s) - 1)) ELSE s

Strip(s) == LStrip(RStrip(s))

StartsWith(s, p) == Len(s) >= Len(p) /\ SubSeq(s, 1, Len(p)) = p

EndsWith(s, p) == Len(s) >= Len(p) /\ SubSeq(s, Len(s) - Len(p) + 1, Len(s)) = p

\* sub in s
Contains(s, sub) == \E i \in 1..(Len(s) - Len(sub) + 1) : SubSeq(s, i, i + Len(sub) - 1) = sub

\* s.count(c) for a single character c
Count(s, c) == Cardinality({i \in 1..Len(s) : Ch(s, i) = c})

\* s.split(c) for a single character c: always at least one fragment
RECURSIVE Split(_, _)
Split(s, c) ==
    IF \A i \in 1..Len(s) : Ch(s, i) # c
    THEN <<s>>
    ELSE LET k == CHOOSE i \in 1..Len(s) :
                      /\ Ch(s, i) = c
                      /\ \A j \in 1..(i - 1) : Ch(s, j) # c
         IN  <<SubSeq(s, 1, k - 1)>> \o Split(SubSeq(s, k + 1, Len(s)), c)

\* sep.join(list)
RECURSIVE Join(_, _)
Join(list, sep) ==
    IF Len(list) = 0 THEN ""
    ELSE IF Len(list) = 1 THEN list[1]
    ELSE list[1] \o sep \o Join(Tail(list), sep)

\* [p.strip() for p in list]
StripAll(list) == [i \in 1..Len(list) |-> Strip(list[i])]

\* [p for p in list if p]
RECURSIVE NonEmpty(_)
NonEmpty(list) ==
    IF Len(list) = 0 THEN <<>>
    ELSE (IF list[1] = "" THEN <<>> ELSE <<list[1]>>) \o NonEmpty(Tail(list))

(***************************************************************************)
(* fix-markdown-tables.py: Row Normalizer                                  *)
(***************************************************************************)

\* the two lines fix_table_row returns for a line that holds '---'
HeaderAndSeparator == "| Category | Specification | Value |\n|----------|---------------|-------|\n"

\* parts = [p.strip() for p in line.split('|')]; parts = [p for p in parts if p]
RowParts(line) == NonEmpty(StripAll(Split(line, "|")))

\* value = ' - '.join(parts[2:]) if len(parts) > 2 else ''
MergeValueDropsCell(parts) == IF Len(parts) > 2 THEN Join(SubSeq(parts, 3, Len(parts) - 1), " - ") ELSE ""

MergeValue(parts) == IF Len(parts) > 2 THEN Join(SubSeq(parts, 3, Len(parts)), " - ") ELSE ""

\* f'| {category} | {specification} | {value} |\n'
FormatRow(category, specification, value) ==
    "| " \o category \o " | " \o specification \o " | " \o value \o " |\n"

\* fix_table_row with short rows padded to three cells
fix_table_row_pads(line) ==
    IF ~StartsWith(Strip(line), "|") THEN line
    ELSE LET pipes == Count(line, "|")
             parts == RowParts(line)
         IN  IF Contains(line, "---") THEN HeaderAndSeparator
             ELSE IF pipes = 4 THEN line
             ELSE IF pipes > 4 /\ Len(parts) > 3
                  THEN FormatRow(parts[1], parts[2], MergeValue(parts))
                  ELSE IF pipes < 4
                       THEN FormatRow(IF Len(parts) > 0 THEN parts[1] ELSE "",
                                      IF Len(parts) > 1 THEN parts[2] ELSE "", "")
                       ELSE line

fix_table_row(line) ==
    IF ~StartsWith(Strip(line), "|") THEN line
    ELSE LET pipes == Count(line, "|") IN
         IF Contains(line, "---") THEN HeaderAndSeparator
         ELSE IF pipes = 4 THEN line
         ELSE IF pipes > 4 /\ Len(RowParts(line)) > 3
              THEN LET parts == RowParts(line)
                       category == IF Len(parts) > 0 THEN parts[1] ELSE ""
                       specification == IF Len(parts) > 1 THEN parts[2] ELSE ""
                   IN  FormatRow(category, specification, MergeValue(parts))
              ELSE line

(***************************************************************************)
(* fix-4col-tables.py: width-4 fixer                                       *)
(***************************************************************************)

\* parts = line.split('|'); parts = [p.strip() for p in parts[1:-1]]
InnerParts(line) == LET parts == Split(line, "|") IN StripAll(SubSeq(parts, 2, Len(parts) - 1))

\* merged_value = f"{col3} - {col4}" if col3 and col4 else (col3 or col4)
MergedValue(col3, col4) ==
    IF col3 # "" /\ col4 # "" THEN col3 \o " - " \o col4
    ELSE IF col3 # "" THEN col3 ELSE col4

fix_table_line(line) ==
    IF ~StartsWith(Strip(line), "|") THEN line
    ELSE LET parts == InnerParts(line) IN
         IF Len(parts) = 4
         THEN "| " \o parts[1] \o " | " \o parts[2] \o " | " \o MergedValue(parts[3], parts[4]) \o " |\n"
         ELSE line

(***************************************************************************)
(* Rows given to the two row functions                                     *)
(***************************************************************************)

\* most cells of a generated row
MaxCells == 5

CellPool == {"GPU", "16 GB", "", "---"}

CellSeqs == UNION {[1..k -> CellPool] : k \in 1..MaxCells}

\* a row in the padded style of the extraction: | c1 | c2 | ... |
RECURSIVE PaddedRow(_)
PaddedRow(cells) == IF Len(cells) = 0 THEN "|" ELSE "| " \o cells[1] \o " " \o PaddedRow(Tail(cells))

\* the same row without padding: |c1|c2|...|
RECURSIVE TightRow(_)
TightRow(cells) == IF Len(cells) = 0 THEN "|" ELSE "|" \o cells[1] \o TightRow(Tail(cells))

\* each row as split('\n') yields it, as readlines() yields it, indented, and unpadded
RowLines ==
    UNION {{PaddedRow(c), PaddedRow(c) \o "\n", "  " \o PaddedRow(c) \o " ", TightRow(c)} : c \in CellSeqs}

InitRow ==
    /\ file \in RowLines
    /\ fixed_lines = <<>>
    /\ outfile = ""
    /\ tool = "none"

\* fixed_line = fix_table_row(line)
FixTableRow ==
    /\ tool = "none"
    /\ tool' = "fix_table_row"
    /\ fixed_lines' = <<fix_table_row(file)>>
    /\ outfile' = fix_table_row(file)
    /\ UNCHANGED file

\* fixed_lines = [fix_table_line(line) for line in lines], for the one line
FixTableLine ==
    /\ tool = "none"
    /\ tool' = "fix_table_line"
    /\ fixed_lines' = <<fix_table_line(file)>>
    /\ outfile' = fix_table_line(file)
    /\ UNCHANGED file

NextRow == FixTableRow \/ FixTableLine

SpecRow == InitRow /\ [][NextRow]_vars

(***************************************************************************)
(* Vocabulary of the claims about rows                                     *)
(***************************************************************************)

\* a line that, trimmed, starts and ends with the column delimiter
IsWrapped(line) == Len(Strip(line)) >= 2 /\ StartsWith(Strip(line), "|") /\ EndsWith(Strip(line), "|")

\* a separator line: one that holds three consecutive dashes
IsSeparator(line) == Contains(line, "---")

\* a table row: wrapped in delimiters and not a separator line
IsDataRow(line) == IsWrapped(line) /\ ~IsSeparator(line)

\* the cells of a row: the trimmed fragments between its first and last '|'
Cells(line) ==
    LET s == Strip(line)
        fragments == Split(SubSeq(s, 2, Len(s) - 1), "|")
    IN  [i \in 1..Len(fragments) |-> Strip(fragments[i])]

AllNonEmpty(cells) == \A i \in 1..Len(cells) : cells[i] # ""

\* the result of a row function is one line (the line break at its end aside)
OneLine(s) == ~Contains(RStrip(s), "\n")

\* C3: a table row (wrapped, not a separator) with exactly 4 non-empty cells
\* c1..c4 is turned by fix_table_row and by fix_table_line alike into the one
\* line whose cells are c1, c2 and "c3 - c4".
C3_FourNonEmptyCells ==
    (tool \in {"fix_table_row", "fix_table_line"} /\ IsDataRow(file)
        /\ Len(Cells(file)) = 4 /\ AllNonEmpty(Cells(file)))
    => LET c == Cells(file) IN
       /\ OneLine(outfile)
       /\ Cells(outfile) = <<c[1], c[2], c[3] \o " - " \o c[4]>>
       /\ fix_table_row(file) = fix_table_line(file)

C3_Witness ==
    /\ tool = "fix_table_row"
    /\ file = "| GPU | 16 GB | 16 GB | GPU |"
    /\ outfile = "| GPU | 16 GB | 16 GB - GPU |\n"

\* C4 (as claimed): a table row with more than 4 cells, empty cells counted,
\* is turned by fix_table_row into a 3-cell row: the original 1st and 2nd
\* cells, then the cells from the 3rd onward joined with " - ".
C4_WideRowAsClaimed ==
    (tool = "fix_table_row" /\ IsDataRow(file) /\ Len(Cells(file)) > 4)
    => LET c == Cells(file) IN
       /\ OneLine(outfile)
       /\ Cells(outfile) = <<c[1], c[2], Join(SubSeq(c, 3, Len(c)), " - ")>>

(***************************************************************************)
(* fix-markdown-tables.py: Table Rewriter                                  *)
(***************************************************************************)

\* the for loop of fix_markdown_tables from line i on (1-based), entered
\* with the flag in_table; yields the elements appended to fixed_lines
RECURSIVE TableLoop(_, _, _)
TableLoop(lines, i, in_table) ==
    IF i > Len(lines) THEN <<>>
    ELSE LET line == lines[i]
             \* Detect table start
             started == \/ in_table
                        \/ /\ Contains(line, "|")
                           /\ i + 1 <= Len(lines)
                           /\ Contains(lines[i + 1], "---")
         IN  IF started /\ Contains(line, "|")
             THEN LET ended == i + 1 <= Len(lines) /\ ~Contains(lines[i + 1], "|")
                  IN  <<RStrip(fix_table_row(line))>> \o TableLoop(lines, i + 1, ~ended)
             ELSE <<line>> \o TableLoop(lines, i + 1, started)

fix_markdown_tables(content) == Join(TableLoop(Split(content, "\n"), 1, FALSE), "\n")

\* most lines of a generated document
MaxLines == 4

RECURSIVE Documents(_, _)
Documents(pool, n) ==
    IF n = 0 THEN {<<>>}
    ELSE LET shorter == Documents(pool, n - 1)
         IN  shorter \cup {d \o <<l>> : d \in {x \in shorter : Len(x) = n - 1}, l \in pool}

\* the contents of the files of at most n lines taken from pool
Contents(pool, n) == {Join(d, "\n") : d \in Documents(pool, n) \ {<<>>}}

TableLinePool ==
    { "| Item | Data |", "|---|---|", "| GPU | Memory | 16 | GB |", "| Fan | 2 | ",
      "| A | B | C |", "| A | B | C | |", "Notes", "|------|------|------|------|" }

InitTables ==
    /\ file \in Contents(TableLinePool, MaxLines)
    /\ fixed_lines = <<>>
    /\ outfile = ""
    /\ tool = "none"

\* main() of fix-markdown-tables.py: read the file, fix, write
FixMarkdownTablesMain ==
    /\ tool = "none"
    /\ tool' = "fix-markdown-tables"
    /\ fixed_lines' = TableLoop(Split(file, "\n"), 1, FALSE)
    /\ outfile' = Join(fixed_lines', "\n")
    /\ UNCHANGED file

\* main() once more, on the file the first run wrote
FixMarkdownTablesAgain ==
    /\ tool = "fix-markdown-tables"
    /\ tool' = "fix-markdown-tables again"
    /\ file' = outfile
    /\ fixed_lines' = TableLoop(Split(outfile, "\n"), 1, FALSE)
    /\ outfile' = Join(fixed_lines', "\n")

NextTables == FixMarkdownTablesMain \/ FixMarkdownTablesAgain

SpecTables == InitTables /\ [][NextTables]_vars

(***************************************************************************)
(* Vocabulary of the claims about table regions                            *)
(***************************************************************************)

CanonicalSeparator == "|----------|---------------|-------|"

\* line i of lines lies in a table region: a region starts at a line that
\* holds '|' and is followed by a line that holds '---', and runs on through
\* the lines that hold '|'
RECURSIVE InRegion(_, _)
InRegion(lines, i) ==
    /\ i \in 1..Len(lines)
    /\ Contains(lines[i], "|")
    /\ \/ i + 1 <= Len(lines) /\ Contains(lines[i + 1], "---")
       \/ i > 1 /\ InRegion(lines, i - 1)

\* the cells of any line that holds '|': the fragments between its first and last '|'
CellCount(line) == Count(line, "|") - 1

Ran == tool \in {"fix-markdown-tables", "fix-markdown-tables again"}

\* C1 (as claimed): running the Table Rewriter on its own output changes nothing.
C1_Idempotent ==
    tool = "fix-markdown-tables again" => outfile = file

\* C2 (as claimed): after the Table Rewriter every line inside a table region
\* of the output has exactly 3 cells.
C2_ThreeCellsEverywhere ==
    Ran => LET out == Split(outfile, "\n") IN
           \A i \in 1..Len(out) : InRegion(out, i) => CellCount(out[i]) = 3

\* C5 (as claimed): a separator line (a '|'-led line that holds '---')
\* processed inside a table region is replaced by the canonical separator
\* literal and nothing else.
C5_SeparatorOnly ==
    Ran => LET lines == Split(file, "\n") IN
           \A i \in 1..Len(lines) :
               (InRegion(lines, i) /\ StartsWith(Strip(lines[i]), "|") /\ IsSeparator(lines[i]))
               => fixed_lines[i] = CanonicalSeparator

ShortRow(line) == IsDataRow(line) /\ Len(Cells(line)) < 3

\* C6 (as claimed): a table row with fewer than 3 cells comes out of the
\* Table Rewriter character for character, at its own position.
C6_ShortRowVerbatim ==
    Ran => LET lines == Split(file, "\n") IN
           /\ Len(fixed_lines) = Len(lines)
           /\ outfile = Join(fixed_lines, "\n")
           /\ \A i \in 1..Len(lines) : ShortRow(lines[i]) => fixed_lines[i] = lines[i]

\* C6 (amended): a table row with fewer than 3 cells comes out of the Table
\* Rewriter at its own position, unchanged but for whitespace at its end,
\* which is removed when the row lies inside a table region.
C6_ShortRowUpToTrailingSpace ==
    Ran => LET lines == Split(file, "\n") IN
           /\ Len(fixed_lines) = Len(lines)
           /\ outfile = Join(fixed_lines, "\n")
           /\ \A i \in 1..Len(lines) :
                  ShortRow(lines[i]) =>
                      fixed_lines[i] = (IF InRegion(lines, i) THEN RStrip(lines[i]) ELSE lines[i])

C6_Witness ==
    /\ tool = "fix-markdown-tables"
    /\ file = "| Item | Data |\n|---|---|\n| Fan | 2 | "
    /\ fixed_lines[3] = "| Fan | 2 |"
    /\ fixed_lines[1] = "| Item | Data |"

(***************************************************************************)
(* clean-empty-sections.py: Section Pruner                                 *)
(***************************************************************************)

UpperCase == "ABCDEFGHIJKLMNOPQRSTUVWXYZ"
LowerCase == "abcdefghijklmnopqrstuvwxyz"

\* s.lower()
RECURSIVE Lower(_)
Lower(s) ==
    IF Len(s) = 0 THEN ""
    ELSE LET c == Ch(s, 1)
             low == IF \E k \in 1..Len(UpperCase) : Ch(UpperCase, k) = c
                    THEN Ch(LowerCase, CHOOSE k \in 1..Len(UpperCase) : Ch(UpperCase, k) = c)
                    ELSE c
         IN  low \o Lower(SubSeq(s, 2, Len(s)))

\* the cells that do not count as data
Placeholders == {"Category", "Specification", "Value", "", "---"}

\* the lookahead stops this many lines after a '## Specifications' header
LookaheadSpan == 5

\* the test of a lookahead line for actual data
RowHasData(next_line) ==
    /\ Contains(next_line, "|")
    /\ Count(next_line, "|") >= 4
    /\ LET parts == InnerParts(next_line)
       IN  Len(parts) > 0 /\ ~(\A k \in 1..Len(parts) : parts[k] \in Placeholders)

\* the inner while loop, entered at line j (1-based) for the header at line
\* i: <<has_data, j>> as the loop leaves them
RECURSIVE Lookahead(_, _, _)
Lookahead(lines, i, j) ==
    IF ~(j <= Len(lines) /\ j < i + LookaheadSpan) THEN <<FALSE, j>>
    ELSE LET next_line == Strip(lines[j]) IN
         IF StartsWith(next_line, "|") /\ ~StartsWith(next_line, "|---")
         THEN IF RowHasData(next_line) THEN <<TRUE, j>> ELSE Lookahead(lines, i, j + 1)
         ELSE IF next_line # "" /\ ~StartsWith(next_line, "|") /\ ~StartsWith(next_line, "#")
              THEN <<FALSE, j>>
              ELSE Lookahead(lines, i, j + 1)

\* the outer while loop from line i on: the indices of the lines appended to cleaned
RECURSIVE KeptFrom(_, _)
KeptFrom(lines, i) ==
    IF i > Len(lines) THEN <<>>
    ELSE LET line == Strip(lines[i])
             look == IF StartsWith(line, "## Specifications")
                     THEN Lookahead(lines, i, i + 1)
                     ELSE <<TRUE, i>>
         IN  IF ~look[1] THEN KeptFrom(lines, look[2])
             ELSE IF Contains(line, "(No") /\ Contains(Lower(line), "found") THEN KeptFrom(lines, i + 1)
             ELSE IF StartsWith(line, "## ") /\ EndsWith(line, "(") THEN KeptFrom(lines, i + 1)
             ELSE <<i>> \o KeptFrom(lines, i + 1)

Cleaned(lines) == LET kept == KeptFrom(lines, 1) IN [n \in 1..Len(kept) |-> lines[kept[n]]]

\* Remove multiple consecutive blank lines
RECURSIVE CollapseBlanks(_, _)
CollapseBlanks(cleaned, prev_blank) ==
    IF Len(cleaned) = 0 THEN <<>>
    ELSE LET is_blank == Strip(cleaned[1]) = "" IN
         IF is_blank /\ prev_blank THEN CollapseBlanks(Tail(cleaned), prev_blank)
         ELSE <<cleaned[1]>> \o CollapseBlanks(Tail(cleaned), is_blank)

\* Remove leading and trailing blank lines
RECURSIVE TrimBlankLines(_)
TrimBlankLines(result) ==
    IF Len(result) > 0 /\ Strip(result[1]) = "" THEN TrimBlankLines(Tail(result))
    ELSE IF Len(result) > 0 /\ Strip(result[Len(result)]) = ""
         THEN TrimBlankLines(SubSeq(result, 1, Len(result) - 1))
         ELSE result

clean_markdown(content) ==
    Join(TrimBlankLines(CollapseBlanks(Cleaned(Split(content, "\n")), FALSE)), "\n")

PrunerLinePool ==
    { "## Specifications", "## Features", "", "| Category | Specification | Value |",
      "|----------|---------------|-------|", "| Weight | 5 kg |", "| Engine | Power | 300 hp |",
      "Overview", "(No features found)", "## Safety (" }

InitPruner ==
    /\ file \in Contents(PrunerLinePool, MaxLines)
    /\ fixed_lines = <<>>
    /\ outfile = ""
    /\ tool = "none"

\* main() of clean-empty-sections.py; fixed_lines holds the list named cleaned
CleanEmptySectionsMain ==
    /\ tool = "none"
    /\ tool' = "clean-empty-sections"
    /\ fixed_lines' = Cleaned(Split(file, "\n"))
    /\ outfile' = Join(TrimBlankLines(CollapseBlanks(fixed_lines', FALSE)), "\n")
    /\ UNCHANGED file

NextPruner == CleanEmptySectionsMain

SpecPruner == InitPruner /\ [][NextPruner]_vars

(***************************************************************************)
(* Vocabulary of the claims about sections                                 *)
(***************************************************************************)

IsHeader(line) == StartsWith(Strip(line), "##")

IsBlank(line) == Strip(line) = ""

\* the header line of the section that line k belongs to (0: before any header)
HeaderOf(lines, k) ==
    IF \E h \in 1..k : IsHeader(lines[h])
    THEN CHOOSE h \in 1..k : IsHeader(lines[h]) /\ \A g \in (h + 1)..k : ~IsHeader(lines[g])
    ELSE 0

\* the body of the section headed at line h
Body(lines, h) == {k \in (h + 1)..Len(lines) : HeaderOf(lines, k) = h}

\* line k of the input is in the output: the loop kept it, and the output has it
Survives(lines, k) ==
    /\ \E n \in 1..Len(KeptFrom(lines, 1)) : KeptFrom(lines, 1)[n] = k
    /\ \E n \in 1..Len(fixed_lines) : fixed_lines[n] = lines[k]
    /\ \E n \in 1..Len(Split(outfile, "\n")) : Split(outfile, "\n")[n] = lines[k]

\* a table row that is not a separator and has a cell outside the placeholder set
EvidenceRow(line) ==
    /\ IsDataRow(line)
    /\ \E n \in 1..Len(Cells(line)) : Cells(line)[n] \notin Placeholders

SaysNothingFound(line) == Contains(line, "(No") /\ Contains(Lower(line), "found")

TruncatedHeader(line) == IsHeader(line) /\ EndsWith(Strip(line), "(")

Pruned == tool = "clean-empty-sections"

\* C7 (as claimed): a section (its header not truncated) with an evidence row
\* among the 4 body lines after its header keeps its header and that row.
C7_EvidenceKeepsSection ==
    Pruned => LET lines == Split(file, "\n") IN
              \A h \in 1..Len(lines) : \A k \in Body(lines, h) :
                  (IsHeader(lines[h]) /\ ~TruncatedHeader(lines[h])
                      /\ k < h + LookaheadSpan /\ EvidenceRow(lines[k]))
                  => (Survives(lines, h) /\ Survives(lines, k))

\* the first non-blank body line of the section headed at h (0: none)
FirstBodyLine(lines, h) ==
    IF \E k \in Body(lines, h) : ~IsBlank(lines[k])
    THEN CHOOSE k \in Body(lines, h) :
             ~IsBlank(lines[k]) /\ \A g \in Body(lines, h) : g < k => IsBlank(lines[g])
    ELSE 0

\* C8 (as claimed): a section whose first non-blank body line says
\* "(No ... found)", or whose header ends in '(', is removed whole: header
\* and every non-blank body line.
C8_AbsentSectionRemoved ==
    Pruned => LET lines == Split(file, "\n") IN
              \A h \in 1..Len(lines) :
                  (IsHeader(lines[h])
                      /\ \/ TruncatedHeader(lines[h])
                         \/ FirstBodyLine(lines, h) # 0 /\ SaysNothingFound(lines[FirstBodyLine(lines, h)]))
                  => (/\ ~Survives(lines, h)
                      /\ \A k \in Body(lines, h) : ~IsBlank(lines[k]) => ~Survives(lines, k))

\* C10 (as claimed): pruning '## Specifications' sections removes lines of
\* those sections only: every non-blank line of another section, its header
\* included, that the two other rules ("(No ... found)", truncated header)
\* leave alone is still in the output.
C10_OnlyOwnSectionRemoved ==
    Pruned => LET lines == Split(file, "\n") IN
              \A k \in 1..Len(lines) :
                  (/\ ~IsBlank(lines[k])
                   /\ HeaderOf(lines, k) # 0
                   /\ ~StartsWith(Strip(lines[HeaderOf(lines, k)]), "## Specifications")
                   /\ ~SaysNothingFound(lines[k])
                   /\ ~TruncatedHeader(lines[k]))
                  => Survives(lines, k)

(***************************************************************************)
(* fix-spacing.py: Spacing Normalizer                                      *)
(***************************************************************************)

Alphanumerics == LowerCase \o UpperCase \o "0123456789"

\* the character class [a-zA-Z0-9).\]\*-]
EndsText(c) ==
    \/ \E k \in 1..Len(Alphanumerics) : Ch(Alphanumerics, k) = c
    \/ c \in {")", ".", "]", "*", "-"}

\* re.sub(r'([a-zA-Z0-9).\]\*-])(##\s)', r'\1\n\n\2', content), scanning from
\* position p: matches are taken left to right and do not overlap
RECURSIVE SplitConcatenatedHeaders(_, _)
SplitConcatenatedHeaders(content, p) ==
    IF p > Len(content) THEN ""
    ELSE IF /\ p + 3 <= Len(content)
            /\ EndsText(Ch(content, p))
            /\ SubSeq(content, p + 1, p + 2) = "##"
            /\ Ch(content, p + 3) \in WS
         THEN Ch(content, p) \o "\n\n" \o SubSeq(content, p + 1, p + 3)
                  \o SplitConcatenatedHeaders(content, p + 4)
         ELSE Ch(content, p) \o SplitConcatenatedHeaders(content, p + 1)

\* the first for loop from line i on, given the last element appended so
\* far (or "" when the list is still empty, which the test treats alike)
RECURSIVE BlankBeforeHeaders(_, _, _)
BlankBeforeHeaders(lines, i, last) ==
    IF i > Len(lines) THEN <<>>
    ELSE LET line == lines[i]
             add == StartsWith(Strip(line), "##") /\ i > 1 /\ Strip(last) # ""
         IN  (IF add THEN <<"">> ELSE <<>>) \o <<line>> \o BlankBeforeHeaders(lines, i + 1, line)

\* a run of blank lines keeps this many
MaxBlankRun == 2

CapBlankRunsKeepsAll(lines, blank_count) == lines

\* the second for loop: blank lines beyond the cap are left out
RECURSIVE CapBlankRuns(_, _)
CapBlankRuns(lines, blank_count) ==
    IF Len(lines) = 0 THEN <<>>
    ELSE IF Strip(lines[1]) = ""
         THEN (IF blank_count + 1 <= MaxBlankRun THEN <<lines[1]>> ELSE <<>>)
                  \o CapBlankRuns(Tail(lines), blank_count + 1)
         ELSE <<lines[1]>> \o CapBlankRuns(Tail(lines), 0)

fix_markdown_spacing(content) ==
    LET lines == Split(SplitConcatenatedHeaders(content, 1), "\n")
    IN  Join(CapBlankRuns(BlankBeforeHeaders(lines, 1, ""), 0), "\n")

SpacingLinePool == {"## A", "Text", "", " ", "End.## B", " ## C"}

\* most lines of a document given to the Spacing Normalizer
MaxSpacingLines == 5

InitSpacing ==
    /\ file \in Contents(SpacingLinePool, MaxSpacingLines)
    /\ fixed_lines = <<>>
    /\ outfile = ""
    /\ tool = "none"

\* main() of fix-spacing.py; fixed_lines holds the list after the first loop
FixSpacingMain ==
    /\ tool = "none"
    /\ tool' = "fix-spacing"
    /\ fixed_lines' = BlankBeforeHeaders(Split(SplitConcatenatedHeaders(file, 1), "\n"), 1, "")
    /\ outfile' = Join(CapBlankRuns(fixed_lines', 0), "\n")
    /\ UNCHANGED file

NextSpacing == FixSpacingMain

SpecSpacing == InitSpacing /\ [][NextSpacing]_vars

\* C9 (as claimed): in the output of the Spacing Normalizer every header line
\* but the first line of the document has exactly one blank line before it:
\* the line before it is blank and the line two before it is not.
C9_ExactlyOneBlankBefore ==
    tool = "fix-spacing" =>
        LET out == Split(outfile, "\n") IN
        \A h \in 2..Len(out) :
            IsHeader(out[h]) => (IsBlank(out[h - 1]) /\ (h > 2 => ~IsBlank(out[h - 2])))

\* C9 (amended): in the output of the Spacing Normalizer every header line
\* but the first line of the document has one or two blank lines before it:
\* the line before it is blank, and the three lines before it are not all blank.
C9_OneOrTwoBlanksBefore ==
    tool = "fix-spacing" =>
        LET out == Split(outfile, "\n") IN
        \A h \in 2..Len(out) :
            IsHeader(out[h]) =>
                /\ IsBlank(out[h - 1])
                /\ h > 3 => ~(IsBlank(out[h - 2]) /\ IsBlank(out[h - 3]))

C9_Witness ==
    /\ tool = "fix-spacing"
    /\ file = "Text\n\n\n\n## A"
    /\ outfile = "Text\n\n\n## A"

====
